---- MODULE Spec2Model ----
(***************************************************************************)
(* Verification model of the rubicon example notebooks and docs workflow.  *)
(*                                                                         *)
(*  - notebooks/quick-look.ipynb : the parent builds one worker process    *)
(*    per configuration, starts them all, joins them all, syncs the local  *)
(*    project to S3, compares the experiment counts and publishes a        *)
(*    catalog of the experiments tagged "success".                         *)
(*  - notebooks/git-integration.ipynb : a client with auto_git_enabled.    *)
(*  - the "Publish docs" workflow.                                         *)
(*                                                                         *)
(* The rubicon client library itself (log_experiment, log_parameter, sync, *)
(* publish, ...) is not part of the sources at hand; the operators that    *)
(* stand for it follow what the notebooks' prose says about it.            *)
(***************************************************************************)
EXTENDS Integers, Sequences, FiniteSets, TLC

(* ------------------------------ bounds -------------------------------- *)
\* exclusive upper end of the n_components range in the runs that start the
\* workers: range(1, 4, 2) is 1, 3, which gives four concurrent workers
\* (the notebook's own value is range_stop; the construction of the list is
\* checked with it in SpecBuild)
FanStop == 4
\* number of names in wine.feature_names (13 in the sklearn data set)
NumFeatures == 2
\* experiments already in the local project when the notebook starts
MaxPrior == 1
\* runs of the docs workflow
MaxRuns == 2
\* commits in the repository the git notebook runs in
MaxCommits == 3

(* --------------------------- program constants ------------------------ *)
range_start == 1
range_stop == 15
range_step == 2
\* accuracy is kept in hundredths; the notebook's threshold is .9
SuccessThreshold == 90
AccuracyValues == (SuccessThreshold - 1)..(SuccessThreshold + 1)
\* variant: the outer loop visits True twice
IsStandardizedValues_same == <<TRUE, TRUE>>
IsStandardizedValues == <<TRUE, FALSE>>
ProjectName == "Wine Classification"
FeatureNames == 1..NumFeatures
CatalogPath == "./wine_catalog.yml"

VARIABLES
  stop,        \* the stop value of range(1, stop, 2) of this run
  pc,          \* the parent's position in the notebook
  bi, bn,      \* build loop: index into [True, False], current n_components
  processes,   \* the list `processes`: kwargs of each Process
  worker,      \* per process: its position and the locals of run_experiment
  si, ji,      \* positions of the start loop and of the join loop
  local,       \* root_dir "./rubicon-root": project name -> id -> experiment
  s3,          \* root_dir s3_path: project name -> id -> experiment
  files,       \* other files written: path -> content
  d_event,     \* docs workflow: the last event delivered to the repository
  d_run,       \* docs workflow: number of the current (or last) run, 0 if none
  d_trigger,   \* docs workflow: the event that started that run
  d_status,    \* docs workflow: "none", "in_progress", "success", "failure"
  d_steps,     \* docs workflow: names of the steps completed in that run
  d_built,     \* docs workflow: run whose output is in docs/build/html
  gh_pages,    \* docs workflow: run whose docs are on the gh-pages branch
  g_pc,        \* git notebook: position
  g_origin,    \* git repository: URL of the remote "origin"
  g_branch,    \* git repository: the active branch
  g_tip,       \* git repository: branch -> its last commit
  g_commits,   \* git repository: number of commits made so far
  g_client,    \* git notebook: the Rubicon client's configuration
  g_project,   \* git notebook: the created project
  g_experiments \* git notebook: the experiments logged to it

quicklook == <<stop, pc, bi, bn, processes, worker, si, ji, local, s3, files>>
docs == <<d_event, d_run, d_trigger, d_status, d_steps, d_built, gh_pages>>
git == <<g_pc, g_origin, g_branch, g_tip, g_commits, g_client, g_project,
         g_experiments>>
vars == <<quicklook, docs, git>>

EmptyMap == [x \in {} |-> 0]

(* ------------------------- the client library ------------------------- *)
\* an experiment as log_experiment creates it: nothing logged, no tags
NewExperiment(creator) ==
  [creator |-> creator, parameters |-> {}, features |-> {},
   metrics |-> {}, dataframes |-> <<>>, tags |-> {}]

\* the id log_experiment gives the new experiment: a uuid, different for
\* every call; the caller's index stands for it
uuid4(caller) == caller

get_or_create_project(root, name) ==
  IF name \in DOMAIN root THEN root ELSE root @@ (name :> EmptyMap)

log_experiment(root, name, id, creator) ==
  [root EXCEPT ![name] = @ @@ (id :> NewExperiment(creator))]

log_parameter(root, name, id, pname, value) ==
  [root EXCEPT ![name][id].parameters = @ \cup {<<pname, value>>}]

log_feature(root, name, id, fname) ==
  [root EXCEPT ![name][id].features = @ \cup {fname}]

log_metric(root, name, id, mname, value) ==
  [root EXCEPT ![name][id].metrics = @ \cup {<<mname, value>>}]

log_dataframe(root, name, id, dftags) ==
  [root EXCEPT ![name][id].dataframes = Append(@, dftags)]

add_tags(root, name, id, newtags) ==
  [root EXCEPT ![name][id].tags = @ \cup newtags]

\* sync copies the named project of the source root to the target root
sync(src, dst, name) ==
  IF name \in DOMAIN dst
    THEN [dst EXCEPT ![name] = src[name] @@ @]
    ELSE dst @@ (name :> src[name])

\* project.experiments()
experiments(root, name) == DOMAIN root[name]

\* publish: the catalog points to the project's experiments that carry one
\* of the given tags
publish(root, name, tags) ==
  [project |-> name,
   experiments |-> {id \in DOMAIN root[name] :
                      root[name][id].tags \cap tags # {}}]

\* variant: publishing moves the published experiments out of the root_dir
published_root_moves(root, name, tags) ==
  [root EXCEPT ![name] =
     [id \in {i \in DOMAIN @ : @[i].tags \cap tags = {}} |-> @[id]]]

\* the root_dir after publish: "publishing does not change or move the data"
published_root(root, name, tags) == root

(* --------------------------- quick-look: data ------------------------- *)
\* variant: the outcome tag is added before the dataframe is logged
run_experiment_body_tag_early ==
  <<"log_experiment", "log_is_standardized", "log_n_components",
    "log_feature", "log_metric", "add_tags", "log_dataframe">>

\* the statements of run_experiment that write to the project, in order
run_experiment_body ==
  <<"log_experiment", "log_is_standardized", "log_n_components",
    "log_feature", "log_metric", "log_dataframe", "add_tags">>

\* the position after statement stmt of run_experiment
Following(stmt) ==
  LET i == CHOOSE k \in DOMAIN run_experiment_body : run_experiment_body[k] = stmt
  IN IF i = Len(run_experiment_body) THEN "done" ELSE run_experiment_body[i + 1]

\* variant: the boundary value counts as a failure
OutcomeTag_strict(accuracy) ==
  IF accuracy > SuccessThreshold THEN "success" ELSE "failure"

\* the outcome tag run_experiment chooses
OutcomeTag(accuracy) ==
  IF accuracy >= SuccessThreshold THEN "success" ELSE "failure"

\* variant: the keyword argument is dropped and the default n_components=2
\* is logged
ParamN_default(kwargs) == <<"n_components", 2>>

\* the two parameters run_experiment logs, from its keyword arguments
ParamStd(kwargs) == <<"is_standardized", kwargs.is_standardized>>
ParamN(kwargs) == <<"n_components", kwargs.n_components>>

\* variant: the publish call selects the failures
experiment_tags_failure == {"failure"}

\* the experiment_tags argument of the publish call
experiment_tags == {"success"}

\* an experiment as a whole run of run_experiment leaves it
FinishedExperiment(creator, kwargs, accuracy) ==
  [creator |-> creator,
   parameters |-> {ParamStd(kwargs), ParamN(kwargs)},
   features |-> FeatureNames,
   metrics |-> {<<"accuracy", accuracy>>},
   dataframes |-> <<{"confusion matrix"}>>,
   tags |-> {OutcomeTag(accuracy)}]

\* what an earlier run of the notebook may have left in the project: an
\* experiment of an interrupted run, or a finished one
PriorKinds ==
  { NewExperiment(0) } \cup
  { FinishedExperiment(0, [is_standardized |-> TRUE, n_components |-> range_start], a) :
      a \in {SuccessThreshold - 1, SuccessThreshold} }

PriorRoots ==
  {EmptyMap} \cup
  UNION { { (ProjectName :> f) : f \in [(0 - k)..(0 - 1) -> PriorKinds] } :
          k \in 0..MaxPrior }

InitialWorker == [pc |-> "initial", experiment |-> 0, accuracy |-> 0, fi |-> 1]

\* variant: join does not wait
is_alive_never(w) == FALSE

\* Process.is_alive(): started and not yet terminated
is_alive(w) == worker[w].pc \notin {"initial", "done"}

(* -------------------------- quick-look: parent ------------------------ *)
CreateProject ==
  /\ pc = "create_project"
  /\ local' = get_or_create_project(local, ProjectName)
  /\ pc' = "build"
  /\ UNCHANGED <<stop, bi, bn, processes, worker, si, ji, s3, files, docs, git>>

\* one processes.append(...) of the nested loops
BuildAppend ==
  /\ pc = "build"
  /\ bi <= Len(IsStandardizedValues)
  /\ bn < stop
  /\ processes' = Append(processes,
        [is_standardized |-> IsStandardizedValues[bi], n_components |-> bn])
  /\ worker' = Append(worker, InitialWorker)
  /\ bn' = bn + range_step
  /\ UNCHANGED <<stop, pc, bi, si, ji, local, s3, files, docs, git>>

\* the inner range is exhausted: next value of is_standardized
BuildNextOuter ==
  /\ pc = "build"
  /\ bi <= Len(IsStandardizedValues)
  /\ bn >= stop
  /\ bi' = bi + 1
  /\ bn' = range_start
  /\ UNCHANGED <<stop, pc, processes, worker, si, ji, local, s3, files, docs, git>>

BuildDone ==
  /\ pc = "build"
  /\ bi > Len(IsStandardizedValues)
  /\ pc' = "start"
  /\ UNCHANGED <<stop, bi, bn, processes, worker, si, ji, local, s3, files, docs, git>>

\* process.start() of the first loop
StartProcess ==
  /\ pc = "start"
  /\ si <= Len(processes)
  /\ worker' = [worker EXCEPT ![si].pc = run_experiment_body[1]]
  /\ si' = si + 1
  /\ UNCHANGED <<stop, pc, bi, bn, processes, ji, local, s3, files, docs, git>>

StartDone ==
  /\ pc = "start"
  /\ si > Len(processes)
  /\ pc' = "join"
  /\ UNCHANGED <<stop, bi, bn, processes, worker, si, ji, local, s3, files, docs, git>>

\* process.join() returns once the process has terminated
JoinProcess ==
  /\ pc = "join"
  /\ ji <= Len(processes)
  /\ ~is_alive(ji)
  /\ ji' = ji + 1
  /\ UNCHANGED <<stop, pc, bi, bn, processes, worker, si, local, s3, files, docs, git>>

\* variant: only the first process is joined
JoinDone_after_first ==
  /\ pc = "join"
  /\ ji > 1
  /\ pc' = "sync"
  /\ UNCHANGED <<stop, bi, bn, processes, worker, si, ji, local, s3, files, docs, git>>

JoinDone ==
  /\ pc = "join"
  /\ ji > Len(processes)
  /\ pc' = "sync"
  /\ UNCHANGED <<stop, bi, bn, processes, worker, si, ji, local, s3, files, docs, git>>

Sync ==
  /\ pc = "sync"
  /\ s3' = sync(local, s3, ProjectName)
  /\ pc' = "compare"
  /\ UNCHANGED <<stop, bi, bn, processes, worker, si, ji, local, files, docs, git>>

\* get_project on the S3 client, then the assert on the two counts
Compare ==
  /\ pc = "compare"
  /\ pc' = IF ProjectName \notin DOMAIN s3 THEN "project_not_found"
           ELSE IF Cardinality(experiments(s3, ProjectName))
                     = Cardinality(experiments(local, ProjectName))
                  THEN "publish" ELSE "assertion_error"
  /\ UNCHANGED <<stop, bi, bn, processes, worker, si, ji, local, s3, files, docs, git>>

Publish ==
  /\ pc = "publish"
  /\ files' = (CatalogPath :> publish(s3, ProjectName, experiment_tags)) @@ files
  /\ s3' = published_root(s3, ProjectName, experiment_tags)
  /\ pc' = "done"
  /\ UNCHANGED <<stop, bi, bn, processes, worker, si, ji, local, docs, git>>

(* ---------------------- quick-look: run_experiment -------------------- *)
LogExperiment(w) ==
  /\ worker[w].pc = "log_experiment"
  /\ local' = log_experiment(local, ProjectName, uuid4(w), w)
  /\ worker' = [worker EXCEPT ![w].experiment = uuid4(w),
                              ![w].pc = Following("log_experiment")]
  /\ UNCHANGED <<stop, pc, bi, bn, processes, si, ji, s3, files, docs, git>>

LogIsStandardized(w) ==
  /\ worker[w].pc = "log_is_standardized"
  /\ LET p == ParamStd(processes[w])
     IN local' = log_parameter(local, ProjectName, worker[w].experiment, p[1], p[2])
  /\ worker' = [worker EXCEPT ![w].pc = Following("log_is_standardized")]
  /\ UNCHANGED <<stop, pc, bi, bn, processes, si, ji, s3, files, docs, git>>

LogNComponents(w) ==
  /\ worker[w].pc = "log_n_components"
  /\ LET p == ParamN(processes[w])
     IN local' = log_parameter(local, ProjectName, worker[w].experiment, p[1], p[2])
  /\ worker' = [worker EXCEPT ![w].pc = Following("log_n_components")]
  /\ UNCHANGED <<stop, pc, bi, bn, processes, si, ji, s3, files, docs, git>>

\* one iteration of `for name in wine.feature_names`
LogFeature(w) ==
  /\ worker[w].pc = "log_feature"
  /\ worker[w].fi <= NumFeatures
  /\ local' = log_feature(local, ProjectName, worker[w].experiment, worker[w].fi)
  /\ worker' = [worker EXCEPT ![w].fi = @ + 1,
                  ![w].pc = IF worker[w].fi + 1 > NumFeatures
                              THEN Following("log_feature") ELSE "log_feature"]
  /\ UNCHANGED <<stop, pc, bi, bn, processes, si, ji, s3, files, docs, git>>

\* fit, predict and accuracy_score, then log_metric("accuracy", accuracy)
LogMetric(w) ==
  /\ worker[w].pc = "log_metric"
  /\ \E accuracy \in AccuracyValues :
       /\ local' = log_metric(local, ProjectName, worker[w].experiment,
                              "accuracy", accuracy)
       /\ worker' = [worker EXCEPT ![w].accuracy = accuracy,
                                   ![w].pc = Following("log_metric")]
  /\ UNCHANGED <<stop, pc, bi, bn, processes, si, ji, s3, files, docs, git>>

LogDataframe(w) ==
  /\ worker[w].pc = "log_dataframe"
  /\ local' = log_dataframe(local, ProjectName, worker[w].experiment,
                            {"confusion matrix"})
  /\ worker' = [worker EXCEPT ![w].pc = Following("log_dataframe")]
  /\ UNCHANGED <<stop, pc, bi, bn, processes, si, ji, s3, files, docs, git>>

AddTags(w) ==
  /\ worker[w].pc = "add_tags"
  /\ local' = add_tags(local, ProjectName, worker[w].experiment,
                       {OutcomeTag(worker[w].accuracy)})
  /\ worker' = [worker EXCEPT ![w].pc = Following("add_tags")]
  /\ UNCHANGED <<stop, pc, bi, bn, processes, si, ji, s3, files, docs, git>>

(* ---------------------------- docs workflow --------------------------- *)
\* events a repository can receive: <<name, activity type>>
Events ==
  { <<"release", "created">>, <<"release", "published">>,
    <<"release", "edited">>, <<"push", "">>, <<"pull_request", "opened">>,
    <<"workflow_dispatch", "">> }

\* variant: no activity-type filter on release events
release_types_any == {"created", "published", "edited"}

\* on: release: types: [created]
release_types == {"created"}

\* the `on:` section: does event e start a run of the workflow
Triggers(e) ==
  \/ e[1] = "release" /\ e[2] \in release_types
  \/ e[1] = "workflow_dispatch"

\* jobs.build-and-deploy.steps
steps ==
  <<"Checkout", "Set up Python", "Add conda to system path",
    "Install dependencies", "Build", "Publish">>

\* the step the run is at
CurrentStep == steps[Len(d_steps) + 1]

StatusAfter(done) == IF Len(done) = Len(steps) THEN "success" ELSE "in_progress"

\* an event reaches the repository; a matching one starts a run on a fresh
\* runner
DeliverEvent(e) ==
  /\ d_status # "in_progress"
  /\ d_run < MaxRuns
  /\ d_event' = e
  /\ IF Triggers(e)
       THEN /\ d_run' = d_run + 1
            /\ d_trigger' = e
            /\ d_status' = "in_progress"
            /\ d_steps' = <<>>
            /\ d_built' = 0
       ELSE UNCHANGED <<d_run, d_trigger, d_status, d_steps, d_built>>
  /\ UNCHANGED <<gh_pages, quicklook, git>>

\* one of the set-up steps completes
StepSucceeds ==
  /\ d_status = "in_progress"
  /\ CurrentStep \notin {"Build", "Publish"}
  /\ d_steps' = Append(d_steps, CurrentStep)
  /\ d_status' = StatusAfter(d_steps')
  /\ UNCHANGED <<d_event, d_run, d_trigger, d_built, gh_pages, quicklook, git>>

\* build-docs.sh completes: docs/build/html holds this run's output
BuildSucceeds ==
  /\ d_status = "in_progress"
  /\ CurrentStep = "Build"
  /\ d_built' = d_run
  /\ d_steps' = Append(d_steps, CurrentStep)
  /\ d_status' = StatusAfter(d_steps')
  /\ UNCHANGED <<d_event, d_run, d_trigger, gh_pages, quicklook, git>>

\* the deploy action pushes the folder docs/build/html to gh-pages; it
\* cannot succeed without that folder
PublishSucceeds ==
  /\ d_status = "in_progress"
  /\ CurrentStep = "Publish"
  /\ d_built # 0
  /\ gh_pages' = d_built
  /\ d_steps' = Append(d_steps, CurrentStep)
  /\ d_status' = StatusAfter(d_steps')
  /\ UNCHANGED <<d_event, d_run, d_trigger, d_built, quicklook, git>>

\* a step fails: the job fails and the remaining steps are skipped
StepFails ==
  /\ d_status = "in_progress"
  /\ d_status' = "failure"
  /\ UNCHANGED <<d_event, d_run, d_trigger, d_steps, d_built, gh_pages,
                 quicklook, git>>

(* ------------------------- git-integration -------------------------- *)
Origins == {"origin_a", "origin_b"}
Branches == {"main", "feature"}

\* the auto_git_enabled argument of the constructor call
auto_git_enabled == TRUE

\* create_project of a client: github_url is the URL of the origin
create_project(client, name, origin) ==
  [name |-> name,
   github_url |-> IF client.auto_git_enabled THEN origin ELSE "none"]

\* variant: the branch is not read from the repository at the call
git_log_experiment_main(client, model_name, branch, commit) ==
  [model_name |-> model_name,
   branch_name |-> IF client.auto_git_enabled THEN "main" ELSE "none",
   commit_hash |-> IF client.auto_git_enabled THEN commit ELSE 0]

\* log_experiment of a project of that client: the active branch and the
\* last commit as they are at the call
git_log_experiment(client, model_name, branch, commit) ==
  [model_name |-> model_name,
   branch_name |-> IF client.auto_git_enabled THEN branch ELSE "none",
   commit_hash |-> IF client.auto_git_enabled THEN commit ELSE 0]

NewClient ==
  /\ g_pc = "new_client"
  /\ g_client' = [persistence |-> "memory", auto_git_enabled |-> auto_git_enabled]
  /\ g_pc' = "create_project"
  /\ UNCHANGED <<g_origin, g_branch, g_tip, g_commits, g_project,
                 g_experiments, quicklook, docs>>

CreateGitProject ==
  /\ g_pc = "create_project"
  /\ g_project' = create_project(g_client, "Automatic Git Integration", g_origin)
  /\ g_pc' = "log_experiment"
  /\ UNCHANGED <<g_origin, g_branch, g_tip, g_commits, g_client,
                 g_experiments, quicklook, docs>>

LogGitExperiment ==
  /\ g_pc = "log_experiment"
  /\ g_experiments' = Append(g_experiments,
        git_log_experiment(g_client, "GitHub Model", g_branch, g_tip[g_branch]))
  /\ g_pc' = "dashboard"
  /\ UNCHANGED <<g_origin, g_branch, g_tip, g_commits, g_client, g_project,
                 quicklook, docs>>

\* the repository the notebook runs in moves on between the cells
GitCommit ==
  /\ g_commits < MaxCommits
  /\ g_commits' = g_commits + 1
  /\ g_tip' = [g_tip EXCEPT ![g_branch] = g_commits + 1]
  /\ UNCHANGED <<g_pc, g_origin, g_branch, g_client, g_project,
                 g_experiments, quicklook, docs>>

GitCheckout(b) ==
  /\ b # g_branch
  /\ g_branch' = b
  /\ UNCHANGED <<g_pc, g_origin, g_tip, g_commits, g_client, g_project,
                 g_experiments, quicklook, docs>>

(* ------------------------- initial conditions ------------------------- *)
QuickLookInit ==
  /\ pc = "create_project"
  /\ bi = 1
  /\ bn = range_start
  /\ processes = <<>>
  /\ worker = <<>>
  /\ si = 1
  /\ ji = 1
  /\ s3 = EmptyMap
  /\ files = EmptyMap

DocsIdle ==
  /\ d_event = "none"
  /\ d_run = 0
  /\ d_trigger = "none"
  /\ d_status = "none"
  /\ d_steps = <<>>
  /\ d_built = 0
  /\ gh_pages = 0

GitIdle ==
  /\ g_pc = "new_client"
  /\ g_origin = "origin_a"
  /\ g_branch = "main"
  /\ g_tip = [b \in Branches |-> 1]
  /\ g_commits = 1
  /\ g_client = [persistence |-> "none", auto_git_enabled |-> FALSE]
  /\ g_project = [name |-> "none", github_url |-> "none"]
  /\ g_experiments = <<>>

(* ------------------------- quick-look: the run ------------------------ *)
Init ==
  /\ QuickLookInit
  /\ stop = FanStop
  /\ local \in PriorRoots
  /\ DocsIdle
  /\ GitIdle

ParentStep ==
  \/ CreateProject
  \/ BuildAppend
  \/ BuildNextOuter
  \/ BuildDone
  \/ StartProcess
  \/ StartDone
  \/ JoinProcess
  \/ JoinDone
  \/ Sync
  \/ Compare
  \/ Publish

WorkerStep(w) ==
  /\ w \in DOMAIN worker
  /\ \/ LogExperiment(w)
     \/ LogIsStandardized(w)
     \/ LogNComponents(w)
     \/ LogFeature(w)
     \/ LogMetric(w)
     \/ LogDataframe(w)
     \/ AddTags(w)

Next ==
  \/ CreateProject
  \/ BuildAppend
  \/ BuildNextOuter
  \/ BuildDone
  \/ StartProcess
  \/ StartDone
  \/ JoinProcess
  \/ JoinDone
  \/ Sync
  \/ Compare
  \/ Publish
  \/ \E w \in DOMAIN worker : LogExperiment(w)
  \/ \E w \in DOMAIN worker : LogIsStandardized(w)
  \/ \E w \in DOMAIN worker : LogNComponents(w)
  \/ \E w \in DOMAIN worker : LogFeature(w)
  \/ \E w \in DOMAIN worker : LogMetric(w)
  \/ \E w \in DOMAIN worker : LogDataframe(w)
  \/ \E w \in DOMAIN worker : AddTags(w)

Spec == Init /\ [][Next]_vars

\* the construction of the list `processes` alone, with the notebook's range
InitBuild ==
  /\ QuickLookInit
  /\ stop \in range_start..range_stop
  /\ local \in PriorRoots
  /\ DocsIdle
  /\ GitIdle

NextBuild ==
  \/ CreateProject
  \/ BuildAppend
  \/ BuildNextOuter
  \/ BuildDone

SpecBuild == InitBuild /\ [][NextBuild]_vars

(* ------------------------- docs workflow: runs ------------------------ *)
QuickLookIdle ==
  /\ QuickLookInit
  /\ stop = range_stop
  /\ local = EmptyMap

InitDocs ==
  /\ QuickLookIdle
  /\ DocsIdle
  /\ GitIdle

NextDocs ==
  \/ \E e \in Events : DeliverEvent(e)
  \/ StepSucceeds
  \/ BuildSucceeds
  \/ PublishSucceeds
  \/ StepFails

SpecDocs == InitDocs /\ [][NextDocs]_vars

(* ------------------------ git-integration: runs ----------------------- *)
InitGit ==
  /\ QuickLookIdle
  /\ DocsIdle
  /\ g_pc = "new_client"
  /\ g_origin \in Origins
  /\ g_branch \in Branches
  /\ g_tip = [b \in Branches |-> 1]
  /\ g_commits = 1
  /\ g_client = [persistence |-> "none", auto_git_enabled |-> FALSE]
  /\ g_project = [name |-> "none", github_url |-> "none"]
  /\ g_experiments = <<>>

NextGit ==
  \/ NewClient
  \/ CreateGitProject
  \/ LogGitExperiment
  \/ GitCommit
  \/ \E b \in Branches : GitCheckout(b)

SpecGit == InitGit /\ [][NextGit]_vars

\* the same runs under the scheduler's guarantees: the parent and every
\* started worker process keep getting processor time
InitFair ==
  /\ QuickLookInit
  /\ stop = FanStop
  /\ local = EmptyMap
  /\ DocsIdle
  /\ GitIdle

FairSpec ==
  /\ InitFair
  /\ [][Next]_vars
  /\ WF_vars(ParentStep)
  /\ \A w \in 1..(Len(IsStandardizedValues) * FanStop) : WF_vars(WorkerStep(w))

(* ------------------------------ properties ---------------------------- *)
\* positions of the parent after the join loop
AfterJoin ==
  {"sync", "compare", "publish", "done", "project_not_found", "assertion_error"}

ConfigParameters(kwargs) ==
  { <<"is_standardized", kwargs.is_standardized>>,
    <<"n_components", kwargs.n_components>> }

OutcomeTags == {"success", "failure"}

C3_OutcomeTag ==
  \A w \in DOMAIN worker :
    worker[w].pc = "done" =>
      LET e == local[ProjectName][worker[w].experiment]
      IN /\ Cardinality(e.tags \cap OutcomeTags) = 1
         /\ \E a \in AccuracyValues :
              /\ e.metrics = {<<"accuracy", a>>}
              /\ ("success" \in e.tags) <=> (a >= 90)
              /\ ("failure" \in e.tags) <=> (a < 90)

C3_Witness ==
  \E w \in DOMAIN worker, v \in DOMAIN worker :
    /\ worker[w].pc = "done"
    /\ worker[v].pc = "done"
    /\ local[ProjectName][worker[w].experiment].metrics = {<<"accuracy", 90>>}
    /\ "success" \in local[ProjectName][worker[w].experiment].tags
    /\ "failure" \in local[ProjectName][worker[v].experiment].tags

C6_FourteenUniqueConfigs ==
  /\ pc = "start" =>
       \A i \in DOMAIN processes, j \in DOMAIN processes :
         i # j => processes[i] # processes[j]
  /\ (pc = "start" /\ stop = 15) =>
       /\ Len(processes) = 14
       /\ Len(worker) = 14
       /\ {processes[i] : i \in DOMAIN processes}
            = [is_standardized : {TRUE, FALSE},
               n_components : {1, 3, 5, 7, 9, 11, 13}]

C6_Witness ==
  /\ pc = "start"
  /\ stop = 15
  /\ Len(processes) = 14

Complete(e) ==
  /\ {p[1] : p \in e.parameters} = {"is_standardized", "n_components"}
  /\ e.features = FeatureNames
  /\ \E m \in e.metrics : m[1] = "accuracy"
  /\ Len(e.dataframes) = 1
  /\ e.dataframes[1] = {"confusion matrix"}

\* C7: in every reachable state, an experiment that carries "success" or
\* "failure" already has both parameters, every feature, the accuracy metric
\* and the confusion-matrix dataframe.
C7_TaggedIsComplete ==
  ProjectName \in DOMAIN local =>
    \A id \in DOMAIN local[ProjectName] :
      local[ProjectName][id].tags \cap OutcomeTags # {}
        => Complete(local[ProjectName][id])

C7_Witness ==
  \E w \in DOMAIN worker, v \in DOMAIN worker :
    /\ worker[w].pc = "done"
    /\ Complete(local[ProjectName][worker[w].experiment])
    /\ worker[v].pc = "log_dataframe"
    /\ ~Complete(local[ProjectName][worker[v].experiment])

AllStarted == \A w \in DOMAIN worker : worker[w].pc # "initial"
AllTerminated == \A w \in DOMAIN worker : worker[w].pc = "done"

\* C8: every process is started before any is joined, they are joined in
\* list order, the join loop terminates, and from then on (sync, compare,
\* publish) no worker is running and nothing is logged to the local project.
C8_StartJoinOrder ==
  /\ []((pc = "join" \/ ji > 1) => (si > Len(processes) /\ AllStarted))
  /\ [](\A w \in DOMAIN worker : w < ji => worker[w].pc = "done")
  /\ [][ji' # ji => (pc = "join" /\ ji' = ji + 1)]_vars
  /\ [](pc \in AfterJoin => (ji > Len(processes) /\ AllTerminated))
  /\ [][(pc \in AfterJoin) => (local' = local)]_vars
  /\ (pc = "join") ~> (pc = "sync")

C8_Witness ==
  /\ pc = "compare"
  /\ Len(processes) >= 4
  /\ AllTerminated

ListedSteps ==
  <<"Checkout", "Set up Python", "Add conda to system path",
    "Install dependencies", "Build", "Publish">>

\* C10: a run starts only on release-created or manual dispatch, its steps
\* complete in the listed order, and gh-pages changes only in a run whose
\* Build step has completed, never after a failed step.
C10_DocsWorkflow ==
  /\ [](d_status # "none" =>
          d_trigger \in {<<"release", "created">>, <<"workflow_dispatch", "">>})
  /\ [][d_run' # d_run =>
          d_event' \in {<<"release", "created">>, <<"workflow_dispatch", "">>}]_vars
  /\ [](/\ Len(d_steps) <= Len(ListedSteps)
        /\ d_steps = SubSeq(ListedSteps, 1, Len(d_steps)))
  /\ [][gh_pages' # gh_pages =>
          /\ d_status = "in_progress"
          /\ d_run' = d_run
          /\ d_steps = SubSeq(ListedSteps, 1, 5)
          /\ gh_pages' = d_run]_vars
  /\ [][d_status = "failure" /\ d_run' = d_run => gh_pages' = gh_pages]_vars

C10_Witness ==
  /\ d_status = "success"
  /\ d_steps = ListedSteps
  /\ gh_pages = d_run
  /\ d_trigger = <<"workflow_dispatch", "">>

====
